---- MODULE Spec2Model ----
(***************************************************************************)
(* A model of the checker repository.                                      *)
(*                                                                         *)
(*   src/src/lib.rs   the single-answer checker: `run` spawns the solution,*)
(*                    classifies its exit status and compares its output   *)
(*                    with the correct answer (check_line_count,           *)
(*                    check_lines, trim_filter_non_empty).                 *)
(*   src/src/main.rs  the suite orchestrator: `run` parses the test suite  *)
(*                    and runs every test in order.                        *)
(*                                                                         *)
(* Texts are sequences of one-character strings over two visible           *)
(* characters, the space and the newline; tab and carriage return, which   *)
(* str::trim removes like the space, are not drawn.                        *)
(***************************************************************************)
EXTENDS Integers, Sequences, FiniteSets, TLC

VARIABLES
    pc,                       \* position of the running function
    solution_command,         \* args.solution_command / solution_command
    correct_answer,           \* trimmed_correct_answer (lib.rs:71)
    actual_answer,            \* trimmed_actual_answer (lib.rs:87)
    status,                   \* solution_output.status
    solution_stderr,          \* solution_output.stderr
    line_count_check_result,  \* lib.rs:102
    check_result,             \* value of check_lines (lib.rs:115)
    printed,                  \* what the program wrote to its stdout
    result,                   \* what the running function returned
    test_suite,               \* main.rs: the suite source
    tests,                    \* main.rs: the parsed tests
    i                         \* main.rs: loop index of `enumerate`

vars == <<pc, solution_command, correct_answer, actual_answer, status,
          solution_stderr, line_count_check_result, check_result, printed,
          result, test_suite, tests, i>>

----------------------------------------------------------------------------
(* Bounds of the model *)

MaxLen == 3        \* longest text handed to the comparison functions
MaxCmdLen == 2     \* longest solution command
MaxTests == 3      \* most records in a suite source

----------------------------------------------------------------------------
(* Characters and texts *)

NL == "\n"
SP == " "
Whitespace == {SP, NL}
Chars == {"1", "2"} \cup Whitespace

RECURSIVE SeqsUpTo(_, _)
SeqsUpTo(S, n) ==
    IF n = 0 THEN {<<>>}
    ELSE LET shorter == SeqsUpTo(S, n - 1)
         IN  shorter \cup {Append(s, c) : s \in {t \in shorter : Len(t) = n - 1}, c \in S}

Texts == SeqsUpTo(Chars, MaxLen)

Last(s) == s[Len(s)]
Front(s) == SubSeq(s, 1, Len(s) - 1)
Max(a, b) == IF a >= b THEN a ELSE b

----------------------------------------------------------------------------
(* str::trim, str::lines, str::split_whitespace as the code uses them *)

RECURSIVE trim_start(_)
trim_start(s) ==
    IF s # <<>> /\ Head(s) \in Whitespace THEN trim_start(Tail(s)) ELSE s

RECURSIVE trim_end(_)
trim_end(s) ==
    IF s # <<>> /\ Last(s) \in Whitespace THEN trim_end(Front(s)) ELSE s

trim(s) == trim_end(trim_start(s))

\* The segments of s between newlines, the one after the last newline included.
RECURSIVE split_newline(_, _)
split_newline(s, cur) ==
    IF s = <<>> THEN <<cur>>
    ELSE IF Head(s) = NL THEN <<cur>> \o split_newline(Tail(s), <<>>)
    ELSE split_newline(Tail(s), Append(cur, Head(s)))

\* str::lines: a final newline ends the last line, it does not start another.
lines(s) ==
    LET segs == split_newline(s, <<>>)
    IN  IF Last(segs) = <<>> THEN Front(segs) ELSE segs

\* str::split_whitespace: the maximal runs of non-whitespace characters.
RECURSIVE split_whitespace_from(_, _)
split_whitespace_from(s, cur) ==
    IF s = <<>> THEN (IF cur = <<>> THEN <<>> ELSE <<cur>>)
    ELSE IF Head(s) \in Whitespace
         THEN (IF cur = <<>> THEN <<>> ELSE <<cur>>) \o split_whitespace_from(Tail(s), <<>>)
         ELSE split_whitespace_from(Tail(s), Append(cur, Head(s)))

split_whitespace(s) == split_whitespace_from(s, <<>>)

----------------------------------------------------------------------------
(* lib.rs: the comparison functions *)

None == [some |-> FALSE]
Some(x) == [some |-> TRUE, val |-> x]

\* A plausible slip: the line is filtered but not trimmed.
trim_filter_non_empty_untrimmed(line) ==
    IF trim(line) = <<>> THEN None ELSE Some(line)

trim_filter_non_empty(line) ==
    LET trimmed == trim(line)
    IN  IF trimmed = <<>> THEN None ELSE Some(trimmed)

\* Iterator::filter_map(trim_filter_non_empty) collected in order.
RECURSIVE filter_map(_)
filter_map(ls) ==
    IF ls = <<>> THEN <<>>
    ELSE LET o == trim_filter_non_empty(Head(ls))
         IN  (IF o.some THEN <<o.val>> ELSE <<>>) \o filter_map(Tail(ls))

\* A plausible slip: the lines of the answer are trimmed but blank ones kept.
RECURSIVE trim_all(_)
trim_all(ls) ==
    IF ls = <<>> THEN <<>> ELSE <<trim(Head(ls))>> \o trim_all(Tail(ls))

correct_lines_unfiltered(correct) == trim_all(lines(correct))

\* lib.rs:179-180, the iterator over the lines of the correct answer.
correct_lines_of(correct) == filter_map(lines(correct))

\* lib.rs:182-185, the iterator over the lines of the actual answer.
actual_lines_of(actual) == filter_map(lines(actual))

Correct == [tag |-> "Correct"]

\* A plausible slip: only a shorter actual answer is reported.
check_line_count_less(correct, actual) ==
    LET correct_line_count == Len(filter_map(lines(correct)))
        actual_line_count == Len(filter_map(lines(actual)))
    IN  IF actual_line_count < correct_line_count
        THEN [tag |-> "Incorrect", expected |-> correct_line_count,
              actual |-> actual_line_count]
        ELSE Correct

check_line_count(correct, actual) ==
    LET correct_line_count == Len(filter_map(lines(correct)))
        actual_line_count == Len(filter_map(lines(actual)))
    IN  IF correct_line_count # actual_line_count
        THEN [tag |-> "Incorrect", expected |-> correct_line_count,
              actual |-> actual_line_count]
        ELSE Correct

\* LineCountCheckResult::is_correct; a plausible slip accepts every value.
is_correct_always(r) == TRUE

is_correct(r) == r.tag = "Correct"

\* The indentation pushed before the line number (lib.rs:189-193).
padding(n) == IF n < 10 THEN 2 ELSE IF n < 100 THEN 1 ELSE 0

\* One line of the message: the matched form (lib.rs:197-202) or the
\* mismatch form carrying both values (lib.rs:205-213).
\* A plausible slip: every line is written in the matched form.
message_line_matched(n, cur_line, cur_correct_line) ==
    [pad |-> padding(n), number |-> n, matched |-> TRUE, got |-> cur_line]

message_line(n, cur_line, cur_correct_line) ==
    IF cur_line = cur_correct_line
    THEN [pad |-> padding(n), number |-> n, matched |-> TRUE, got |-> cur_line]
    ELSE [pad |-> padding(n), number |-> n, matched |-> FALSE, got |-> cur_line,
          expected |-> cur_correct_line]

\* The loop of check_lines from position k on: "panic" when
\* correct_lines.next() is None under the unwrap of lib.rs:187.
RECURSIVE check_lines_loop(_, _, _, _)
check_lines_loop(correct_lines, actual_lines, k, acc) ==
    IF k > Len(actual_lines) THEN acc
    ELSE IF k > Len(correct_lines) THEN [acc EXCEPT !.panic = TRUE]
    ELSE LET entry == message_line(k, actual_lines[k], correct_lines[k])
         IN  check_lines_loop(correct_lines, actual_lines, k + 1,
                 [acc EXCEPT !.message = Append(@, entry),
                             !.correct = @ /\ entry.matched])

Panic == [tag |-> "Panic"]

check_lines(correct, actual) ==
    LET end == check_lines_loop(correct_lines_of(correct), actual_lines_of(actual), 1,
                   [message |-> <<>>, correct |-> TRUE, panic |-> FALSE])
    IN  IF end.panic THEN Panic
        ELSE IF end.correct THEN Correct
        ELSE [tag |-> "Incorrect", message |-> end.message]

----------------------------------------------------------------------------
(* lib.rs tests: the comparison functions called on arbitrary texts *)

NoValue == [tag |-> "none"]

InitTests ==
    /\ pc = "tests"
    /\ correct_answer \in Texts
    /\ actual_answer \in Texts
    /\ line_count_check_result = NoValue
    /\ check_result = NoValue
    /\ solution_command = <<>>
    /\ status = "none"
    /\ solution_stderr = <<>>
    /\ printed = <<>>
    /\ result = NoValue
    /\ test_suite = <<>>
    /\ tests = <<>>
    /\ i = 0

CallCheckLineCount ==
    /\ pc = "tests"
    /\ line_count_check_result = NoValue
    /\ line_count_check_result' = check_line_count(correct_answer, actual_answer)
    /\ UNCHANGED <<pc, solution_command, correct_answer, actual_answer, status,
                   solution_stderr, check_result, printed, result, test_suite,
                   tests, i>>

CallCheckLines ==
    /\ pc = "tests"
    /\ check_result = NoValue
    /\ check_result' = check_lines(correct_answer, actual_answer)
    /\ UNCHANGED <<pc, solution_command, correct_answer, actual_answer, status,
                   solution_stderr, line_count_check_result, printed, result,
                   test_suite, tests, i>>

NextTests == CallCheckLineCount \/ CallCheckLines

SpecTests == InitTests /\ [][NextTests]_vars

----------------------------------------------------------------------------
(* lib.rs: run *)

CmdChars == {"c", SP}
Commands == SeqsUpTo(CmdChars, MaxCmdLen)
StderrTexts == {<<>>, <<"1">>}
ExitStatuses == {"exit0", "exit1", "SIGSEGV"}

Ok == [tag |-> "Ok"]
Err(context) == [tag |-> "Err", context |-> context]

\* create_solution_command: the first token is the program, the others its
\* arguments; `next().unwrap()` panics when there is no token.
create_solution_command(command) ==
    LET solution_splitted == split_whitespace(command)
    IN  IF solution_splitted = <<>> THEN Panic
        ELSE [tag |-> "Command", program |-> Head(solution_splitted),
              args |-> Tail(solution_splitted)]

\* The error returned for a solution that did not exit with status 0.
nonzero_exit_error(exit_status, stderr_utf8, stderr) ==
    IF stderr_utf8
    THEN [tag |-> "Err", context |-> "solution terminated with a non-zero exit code",
          cause |-> <<"Stderr:", stderr>>]
    ELSE Err("failed to convert solution stderr to UTF-8")

InitRun ==
    /\ pc = "open_input"
    /\ solution_command \in Commands
    /\ correct_answer = <<>>
    /\ actual_answer = <<>>
    /\ status = "none"
    /\ solution_stderr = <<>>
    /\ line_count_check_result = NoValue
    /\ check_result = NoValue
    /\ printed = <<>>
    /\ result = NoValue
    /\ test_suite = <<>>
    /\ tests = <<>>
    /\ i = 0

\* lib.rs:59-62: stdin of the solution is null or the opened input file.
OpenInput ==
    /\ pc = "open_input"
    /\ \E opened \in BOOLEAN :
          IF opened
          THEN pc' = "read_answer" /\ result' = result
          ELSE pc' = "done" /\ result' = Err("could not read test input")
    /\ UNCHANGED <<solution_command, correct_answer, actual_answer, status,
                   solution_stderr, line_count_check_result, check_result,
                   printed, test_suite, tests, i>>

\* lib.rs:64-71: the answer file is read and trimmed.
ReadAnswer ==
    /\ pc = "read_answer"
    /\ \/ /\ pc' = "done"
          /\ result' = Err("could not read correct answer")
          /\ UNCHANGED correct_answer
       \/ \E text \in Texts :
             /\ correct_answer' = trim(text)
             /\ pc' = "spawn"
             /\ UNCHANGED result
    /\ UNCHANGED <<solution_command, actual_answer, status, solution_stderr,
                   line_count_check_result, check_result, printed, test_suite,
                   tests, i>>

\* lib.rs:73-76: the command is built and run to completion.
SpawnSolution ==
    /\ pc = "spawn"
    /\ LET command == create_solution_command(solution_command)
       IN  IF command = Panic
           THEN /\ pc' = "done"
                /\ result' = Panic
                /\ UNCHANGED status
           ELSE \/ /\ pc' = "done"
                   /\ result' = Err("could not read output of the solution")
                   /\ UNCHANGED status
                \/ \E st \in ExitStatuses :
                      /\ status' = st
                      /\ pc' = "check_status"
                      /\ UNCHANGED <<result, solution_stderr>>
    /\ UNCHANGED <<solution_command, correct_answer, actual_answer,
                   solution_stderr, line_count_check_result, check_result,
                   printed, test_suite, tests, i>>

\* lib.rs:78-84: anything but exit status 0 is returned as an error. The
\* captured stderr is drawn here, where it is first read.
CheckStatus ==
    /\ pc = "check_status"
    /\ IF status # "exit0"
       THEN /\ pc' = "done"
            /\ \E stderr \in StderrTexts, stderr_utf8 \in BOOLEAN :
                  /\ solution_stderr' = stderr
                  /\ result' = nonzero_exit_error(status, stderr_utf8, stderr)
       ELSE /\ pc' = "read_actual"
            /\ UNCHANGED <<result, solution_stderr>>
    /\ UNCHANGED <<solution_command, correct_answer, actual_answer, status,
                   line_count_check_result, check_result, printed, test_suite,
                   tests, i>>

\* lib.rs:86-100: the actual answer is the trimmed output file or the
\* captured stdout as it is. The bytes are drawn here, where they are first
\* read.
ReadActual ==
    /\ pc = "read_actual"
    /\ \E output_file \in BOOLEAN :
          \/ /\ pc' = "done"
             /\ result' = IF output_file
                          THEN Err("couldn't read solution output")
                          ELSE Err("failed to convert solution output to UTF-8")
             /\ UNCHANGED actual_answer
          \/ \E text \in Texts :
                /\ actual_answer' = IF output_file THEN trim(text) ELSE text
                /\ pc' = "check_line_count"
                /\ UNCHANGED result
    /\ UNCHANGED <<solution_command, correct_answer, status, solution_stderr,
                   line_count_check_result, check_result, printed, test_suite,
                   tests, i>>

\* lib.rs:102-112
CheckLineCount ==
    /\ pc = "check_line_count"
    /\ line_count_check_result' = check_line_count(correct_answer, actual_answer)
    /\ printed' = IF line_count_check_result'.tag = "Incorrect"
                  THEN Append(printed,
                           [kind |-> "Number of lines differs",
                            expected |-> line_count_check_result'.expected,
                            actual |-> line_count_check_result'.actual])
                  ELSE printed
    /\ pc' = "check_lines"
    /\ UNCHANGED <<solution_command, correct_answer, actual_answer, status,
                   solution_stderr, check_result, result, test_suite, tests, i>>

\* lib.rs:114-125
CheckLines ==
    /\ pc = "check_lines"
    /\ pc' = "done"
    /\ IF is_correct(line_count_check_result)
       THEN /\ check_result' = check_lines(correct_answer, actual_answer)
            /\ CASE check_result' = Panic ->
                       result' = Panic /\ UNCHANGED printed
                 [] check_result' = Correct ->
                       /\ printed' = Append(printed, [kind |-> "The answer is correct"])
                       /\ result' = Ok
                 [] OTHER ->
                       /\ printed' = Append(printed,
                              [kind |-> "message", message |-> check_result'.message])
                       /\ result' = Ok
       ELSE result' = Ok /\ UNCHANGED <<check_result, printed>>
    /\ UNCHANGED <<solution_command, correct_answer, actual_answer, status,
                   solution_stderr, line_count_check_result, test_suite, tests, i>>

Next ==
    \/ OpenInput
    \/ ReadAnswer
    \/ SpawnSolution
    \/ CheckStatus
    \/ ReadActual
    \/ CheckLineCount
    \/ CheckLines

Spec == InitRun /\ [][Next]_vars

----------------------------------------------------------------------------
(* main.rs: run, over checker::parse_tests and checker::run_test.          *)
(* A suite source is a sequence of tokens: the three markers, each with    *)
(* its newline, and the characters of the texts between them.              *)

TestMarker == "[test]"
InputMarker == "[input]"
AnswerMarker == "[answer]"

\* The bodies a record of the suite source is drawn from: two well-formed
\* ones, one without [answer], one without [input], an empty one.
RecordBodies ==
    { <<InputMarker, "1", NL, AnswerMarker, "2", NL>>,
      <<InputMarker, AnswerMarker>>,
      <<InputMarker, "1", NL>>,
      <<"1", NL, AnswerMarker, "2", NL>>,
      <<>> }

RECURSIVE JoinRecords(_)
JoinRecords(bodies) ==
    IF bodies = <<>> THEN <<>>
    ELSE <<TestMarker>> \o Head(bodies) \o JoinRecords(Tail(bodies))

SuiteSources == {JoinRecords(bodies) : bodies \in SeqsUpTo(RecordBodies, MaxTests)}

\* The segments of the source around the [test] markers.
RECURSIVE split_test_marker(_, _)
split_test_marker(s, cur) ==
    IF s = <<>> THEN <<cur>>
    ELSE IF Head(s) = TestMarker THEN <<cur>> \o split_test_marker(Tail(s), <<>>)
    ELSE split_test_marker(Tail(s), Append(cur, Head(s)))

\* An empty leading or trailing segment is no record.
record_segments(source) ==
    LET segs == split_test_marker(source, <<>>)
        tailed == IF Head(segs) = <<>> THEN Tail(segs) ELSE segs
    IN  IF tailed # <<>> /\ Last(tailed) = <<>> THEN Front(tailed) ELSE tailed

\* One record: [input] first, then the input up to the first [answer], then
\* the answer; both trimmed.
parse_record(body) ==
    IF body = <<>> \/ Head(body) # InputMarker THEN [ok |-> FALSE]
    ELSE LET rest == Tail(body)
             answers == {k \in 1..Len(rest) : rest[k] = AnswerMarker}
         IN  IF answers = {} THEN [ok |-> FALSE]
             ELSE LET at == CHOOSE k \in answers : \A k2 \in answers : k <= k2
                  IN  [ok |-> TRUE,
                       test |-> [input |-> trim(SubSeq(rest, 1, at - 1)),
                                 answer |-> trim(SubSeq(rest, at + 1, Len(rest)))]]

\* The records in order; a malformed record fails the whole parse. `tests`
\* of a failed parse are the records before the malformed one.
RECURSIVE parse_records(_, _)
parse_records(segs, acc) ==
    IF segs = <<>> THEN [ok |-> TRUE, tests |-> acc]
    ELSE LET r == parse_record(Head(segs))
         IN  IF r.ok THEN parse_records(Tail(segs), Append(acc, r.test))
             ELSE [ok |-> FALSE, tests |-> acc]

parse_tests(source) == parse_records(record_segments(source), <<>>)

\* What run_test can come to for a command: what it prints for a test that
\* ran, or the error it returns.
RunTestOutcomes(command) ==
    IF trim(command) = <<>> THEN {Err("EmptyCommand")}
    ELSE {[tag |-> "Ok", verdict |-> "Passed"],
          [tag |-> "Ok", verdict |-> "Wrong answer"],
          Err("SpawnFailed"), Err("NonUtf8Output")}

\* main.rs:41, `parse_tests(&test_suite)?`: a failed parse is returned.
\* A plausible slip: the tests parsed before the failure are run.
after_parse_lenient(parsed) ==
    [pc |-> "loop", tests |-> parsed.tests, result |-> NoValue]

after_parse(parsed) ==
    IF parsed.ok
    THEN [pc |-> "loop", tests |-> parsed.tests, result |-> NoValue]
    ELSE [pc |-> "done", tests |-> <<>>, result |-> Err("MalformedSuite")]

\* main.rs:45-57, the match on run_test's value: an error is printed and the
\* loop goes on. A plausible slip: the error is returned, as `?` would.
after_test_propagating(outcome) ==
    IF outcome.tag = "Ok"
    THEN [pc |-> "loop", printed |-> <<outcome>>, result |-> NoValue]
    ELSE [pc |-> "done", printed |-> <<>>, result |-> outcome]

after_test(outcome) ==
    IF outcome.tag = "Ok"
    THEN [pc |-> "loop", printed |-> <<outcome>>, result |-> NoValue]
    ELSE [pc |-> "loop",
          printed |-> <<[tag |-> "Error occured", error |-> outcome.context]>>,
          result |-> NoValue]

InitMain ==
    /\ pc = "main_run"
    /\ solution_command \in Commands
    /\ test_suite \in SuiteSources
    /\ tests = <<>>
    /\ i = 0
    /\ printed = <<>>
    /\ result = NoValue
    /\ correct_answer = <<>>
    /\ actual_answer = <<>>
    /\ status = "none"
    /\ solution_stderr = <<>>
    /\ line_count_check_result = NoValue
    /\ check_result = NoValue

\* main.rs:37-39
CheckCommand ==
    /\ pc = "main_run"
    /\ IF solution_command = <<>>
       THEN pc' = "done" /\ result' = Err("Empty solution command provided")
       ELSE pc' = "parse" /\ UNCHANGED result
    /\ UNCHANGED <<solution_command, correct_answer, actual_answer, status,
                   solution_stderr, line_count_check_result, check_result,
                   printed, test_suite, tests, i>>

\* main.rs:41
ParseTests ==
    /\ pc = "parse"
    /\ LET next == after_parse(parse_tests(test_suite))
       IN  /\ pc' = next.pc
           /\ tests' = next.tests
           /\ result' = next.result
    /\ UNCHANGED <<solution_command, correct_answer, actual_answer, status,
                   solution_stderr, line_count_check_result, check_result,
                   printed, test_suite, i>>

\* main.rs:43-58, one iteration of the loop
RunTest ==
    /\ pc = "loop"
    /\ i < Len(tests)
    /\ \E outcome \in RunTestOutcomes(trim(solution_command)) :
          LET next == after_test(outcome)
          IN  /\ printed' = printed \o <<[tag |-> "Test", number |-> i + 1]>>
                                    \o next.printed
              /\ pc' = next.pc
              /\ result' = next.result
    /\ i' = i + 1
    /\ UNCHANGED <<solution_command, correct_answer, actual_answer, status,
                   solution_stderr, line_count_check_result, check_result,
                   test_suite, tests>>

\* main.rs:60
ReturnOk ==
    /\ pc = "loop"
    /\ i = Len(tests)
    /\ pc' = "done"
    /\ result' = Ok
    /\ UNCHANGED <<solution_command, correct_answer, actual_answer, status,
                   solution_stderr, line_count_check_result, check_result,
                   printed, test_suite, tests, i>>

NextMain == CheckCommand \/ ParseTests \/ RunTest \/ ReturnOk

SpecMain == InitMain /\ [][NextMain]_vars

----------------------------------------------------------------------------
(* What the properties speak of, stated on the text itself and not through *)
(* the operators above.                                                    *)

\* The positions at which a line of s starts.
LineStarts(s) == {k \in 1..Len(s) : k = 1 \/ s[k - 1] = NL}

\* The end of the line starting at k: the position before the next newline.
LineEnd(s, k) ==
    LET nls == {j \in k..Len(s) : s[j] = NL}
    IN  IF nls = {} THEN Len(s)
        ELSE (CHOOSE j \in nls : \A j2 \in nls : j <= j2) - 1

\* The line starting at k without its surrounding whitespace.
Stripped(s, k) ==
    LET ink == {j \in k..LineEnd(s, k) : s[j] \notin Whitespace}
    IN  IF ink = {} THEN <<>>
        ELSE SubSeq(s, CHOOSE j \in ink : \A j2 \in ink : j <= j2,
                       CHOOSE j \in ink : \A j2 \in ink : j >= j2)

NonBlankStarts(s) == {k \in LineStarts(s) : Stripped(s, k) # <<>>}

RECURSIVE InOrder(_)
InOrder(S) ==
    IF S = {} THEN <<>>
    ELSE LET m == CHOOSE k \in S : \A k2 \in S : k <= k2
         IN  <<m>> \o InOrder(S \ {m})

\* The trimmed, non-empty lines of s, in order.
NormalizedLines(s) ==
    LET starts == InOrder(NonBlankStarts(s))
    IN  [n \in 1..Len(starts) |-> Stripped(s, starts[n])]

\* Position p (between characters p and p+1) lies in the leading or in the
\* trailing whitespace of its line: a whitespace character put there adds
\* leading or trailing whitespace to a line, or a blank line.
AtLineEdge(s, p) ==
    \/ \A j \in 1..p : (\A k \in j..p : s[k] # NL) => s[j] \in Whitespace
    \/ \A j \in (p + 1)..Len(s) : (\A k \in (p + 1)..j : s[k] # NL) => s[j] \in Whitespace

Insert(s, p, c) == SubSeq(s, 1, p) \o <<c>> \o SubSeq(s, p + 1, Len(s))
Remove(s, p) == SubSeq(s, 1, p - 1) \o SubSeq(s, p + 1, Len(s))

\* The texts one incidental whitespace edit away from s.
WhitespaceVariants(s) ==
    {Insert(s, p, c) : p \in {q \in 0..Len(s) : AtLineEdge(s, q)}, c \in Whitespace}
    \cup {Remove(s, p) : p \in {q \in 1..Len(s) : s[q] \in Whitespace
                                                 /\ AtLineEdge(Remove(s, q), q - 1)}}

\* C1: an incidental whitespace edit of either argument (whitespace added to
\* or removed from the edge of a line, a blank line added or removed) changes
\* neither the verdict of check_line_count nor that of check_lines.
C1_WhitespaceInsensitive ==
    pc = "tests" /\ line_count_check_result # NoValue /\ check_result # NoValue =>
        /\ \A e \in WhitespaceVariants(correct_answer) :
              /\ check_line_count(e, actual_answer).tag = line_count_check_result.tag
              /\ check_lines(e, actual_answer).tag = check_result.tag
        /\ \A a \in WhitespaceVariants(actual_answer) :
              /\ check_line_count(correct_answer, a).tag = line_count_check_result.tag
              /\ check_lines(correct_answer, a).tag = check_result.tag

\* One line against the same line after a blank line and a space.
C1_Witness ==
    /\ pc = "tests"
    /\ check_result = Correct
    /\ line_count_check_result = Correct
    /\ correct_answer = <<"1">>
    /\ actual_answer = <<NL, SP, "1">>

\* C2: a text compared with itself is Correct, for check_line_count and for
\* check_lines.
C2_SelfCompareCorrect ==
    pc = "tests" /\ correct_answer = actual_answer =>
        /\ line_count_check_result # NoValue => line_count_check_result = Correct
        /\ check_result # NoValue => check_result = Correct

C2_Witness ==
    /\ pc = "tests"
    /\ correct_answer = <<NL, "1", SP>>
    /\ actual_answer = correct_answer
    /\ line_count_check_result = Correct
    /\ check_result = Correct

\* C3: on texts with the same number of normalized lines check_lines is
\* Incorrect exactly when some position holds unequal lines, and its message
\* then has one entry per position, numbered from 1 in order, in the mismatch
\* form with both values exactly at the unequal positions.
C3_MismatchDetection ==
    LET e == NormalizedLines(correct_answer)
        a == NormalizedLines(actual_answer)
    IN  pc = "tests" /\ check_result # NoValue /\ Len(e) = Len(a) =>
            /\ check_result.tag \in {"Correct", "Incorrect"}
            /\ check_result.tag = "Incorrect" <=> \E k \in 1..Len(a) : a[k] # e[k]
            /\ check_result.tag = "Incorrect" =>
                  /\ Len(check_result.message) = Len(a)
                  /\ \A k \in 1..Len(a) :
                        LET entry == check_result.message[k]
                        IN  /\ entry.number = k
                            /\ entry.got = a[k]
                            /\ entry.matched <=> a[k] = e[k]
                            /\ ~entry.matched => entry.expected = e[k]

\* Two lines each, equal at line 1 and unequal at line 2.
C3_Witness ==
    /\ pc = "tests"
    /\ correct_answer = <<"1", NL, "2">>
    /\ actual_answer = <<"1", NL, "1">>
    /\ check_result.tag = "Incorrect"
    /\ Len(check_result.message) = 2
    /\ check_result.message[1].matched
    /\ ~check_result.message[2].matched
    /\ check_result.message[2].number = 2

\* C9: check_line_count is Correct exactly when both texts have the same
\* number of lines that are non-empty after trimming, whatever the lines
\* hold, and is otherwise Incorrect with exactly those two counts.
C9_LineCount ==
    LET n == Cardinality(NonBlankStarts(correct_answer))
        m == Cardinality(NonBlankStarts(actual_answer))
    IN  pc = "tests" /\ line_count_check_result # NoValue =>
            IF n = m THEN line_count_check_result = Correct
            ELSE line_count_check_result =
                    [tag |-> "Incorrect", expected |-> n, actual |-> m]

\* One line expected, two lines given.
C9_Witness ==
    /\ pc = "tests"
    /\ correct_answer = <<SP, "1", NL>>
    /\ actual_answer = <<"1", NL, "2">>
    /\ line_count_check_result = [tag |-> "Incorrect", expected |-> 1, actual |-> 2]

\* The comparison stage of run (lib.rs:102-125) has been carried out.
Compared == pc = "done" /\ line_count_check_result # NoValue

CountMessage(n, m) == [kind |-> "Number of lines differs", expected |-> n, actual |-> m]

\* C4 as claimed: on a line-count mismatch the per-line diff covers
\* max(len(expected), len(actual)) positions, and every position past the end
\* of the shorter sequence is a mismatch entry against an empty placeholder.
C4_PlaceholderDiff ==
    LET e == NormalizedLines(correct_answer)
        a == NormalizedLines(actual_answer)
    IN  Compared /\ Len(e) # Len(a) =>
            /\ result = Ok
            /\ \E out \in {printed[k] : k \in 1..Len(printed)} :
                  /\ out.kind = "message"
                  /\ Len(out.message) = Max(Len(e), Len(a))
                  /\ \A k \in 1..Len(out.message) :
                        k > Len(e) \/ k > Len(a) =>
                            /\ ~out.message[k].matched
                            /\ out.message[k].number = k
                            /\ out.message[k].got = (IF k > Len(a) THEN <<>> ELSE a[k])
                            /\ out.message[k].expected = (IF k > Len(e) THEN <<>> ELSE e[k])

\* C4 as amended: on a line-count mismatch run reports the two counts once,
\* does not call check_lines (so no per-line entry and no placeholder is
\* produced and the unwrap of check_lines never meets the end of the
\* expected lines) and returns Ok.
C4_CountMismatchReported ==
    LET e == NormalizedLines(correct_answer)
        a == NormalizedLines(actual_answer)
    IN  Compared /\ Len(e) # Len(a) =>
            /\ result = Ok
            /\ check_result = NoValue
            /\ printed = <<CountMessage(Len(e), Len(a))>>

\* One line expected, two lines given.
C4_Witness ==
    /\ Compared
    /\ correct_answer = <<"1">>
    /\ actual_answer = <<"1", NL, "2">>
    /\ result = Ok
    /\ printed = <<CountMessage(1, 2)>>

\* C7 as claimed: a command that trims to empty makes run return an error
\* value, with no process spawned and no panic; of any other command the
\* first token is the program and the other tokens its arguments in order.
C7_EmptyCommandRejected ==
    IF trim(solution_command) = <<>>
    THEN status = "none" /\ (pc = "done" => result.tag = "Err")
    ELSE LET command == create_solution_command(solution_command)
             first == CHOOSE k \in 1..Len(solution_command) :
                         /\ solution_command[k] \notin Whitespace
                         /\ \A j \in 1..(k - 1) : solution_command[j] \in Whitespace
         IN  /\ command.tag = "Command"
             /\ command.program # <<>>
             /\ command.program =
                   SubSeq(solution_command, first, first + Len(command.program) - 1)
             /\ \A k \in 1..Len(command.args) : command.args[k] # <<>>

\* C8 as claimed: a solution killed by SIGSEGV is reported as a segmentation
\* fault, not as a non-zero exit with its stderr.
C8_SegfaultDistinct ==
    pc = "done" /\ status = "SIGSEGV" =>
        /\ result.tag = "Err"
        /\ result.context = "Segmentation fault"

\* C10: the comparison stage prints "The answer is correct" exactly when the
\* trimmed, non-empty lines of both texts are the same sequence; check_lines
\* is called only after check_line_count returned Correct; on differing
\* counts the count message is printed and neither "The answer is correct"
\* nor a per-line message.
C10_VerdictSoundComplete ==
    LET e == NormalizedLines(correct_answer)
        a == NormalizedLines(actual_answer)
        kinds == {printed[k].kind : k \in 1..Len(printed)}
    IN  /\ check_result # NoValue => line_count_check_result = Correct
        /\ Compared =>
              /\ result = Ok
              /\ "The answer is correct" \in kinds <=> e = a
              /\ Len(e) # Len(a) =>
                    /\ CountMessage(Len(e), Len(a)) \in {printed[k] : k \in 1..Len(printed)}
                    /\ kinds = {"Number of lines differs"}
              /\ Len(e) = Len(a) /\ e # a => kinds = {"message"}

\* Equal lines under different whitespace: the answer is correct.
C10_Witness ==
    /\ Compared
    /\ correct_answer = <<"1">>
    /\ actual_answer = <<NL, "1", SP>>
    /\ printed = <<[kind |-> "The answer is correct"]>>
    /\ result = Ok

\* The numbers of the "Test k:" headers printed, in the order printed.
RECURSIVE HeaderNumbers(_)
HeaderNumbers(out) ==
    IF out = <<>> THEN <<>>
    ELSE (IF Head(out).tag = "Test" THEN <<Head(out).number>> ELSE <<>>)
         \o HeaderNumbers(Tail(out))

\* What was printed after the header of test k and before the next header.
ReportOf(out, k) ==
    LET at == CHOOSE j \in 1..Len(out) : out[j].tag = "Test" /\ out[j].number = k
    IN  out[at + 1]

\* C5: the tests are attempted once each, in suite order, under the headers
\* "Test 1:" to "Test N:"; an error of a test is printed and the loop goes on
\* to the next test; the run ends with Ok after the last test.
C5_PartialFailureIsolation ==
    /\ pc \in {"loop", "done"}
    /\ result \notin {Err("Empty solution command provided"), Err("MalformedSuite")}
    =>
        /\ i <= Len(tests)
        /\ HeaderNumbers(printed) = [k \in 1..i |-> k]
        /\ Len(printed) = 2 * i
        /\ pc = "loop" /\ i < Len(tests) => ENABLED RunTest
        /\ pc = "done" => result = Ok /\ i = Len(tests)

\* Test 2 of 3 failed to spawn; tests 1 and 3 reported their own outcomes.
C5_Witness ==
    /\ pc = "done"
    /\ result = Ok
    /\ Len(tests) = 3
    /\ HeaderNumbers(printed) = <<1, 2, 3>>
    /\ ReportOf(printed, 1) = [tag |-> "Ok", verdict |-> "Passed"]
    /\ ReportOf(printed, 2) = [tag |-> "Error occured", error |-> "SpawnFailed"]
    /\ ReportOf(printed, 3) = [tag |-> "Ok", verdict |-> "Wrong answer"]

\* Some [test] record of the source has [input] but no [answer] before the
\* next [test] or the end.
LacksAnswer(source) ==
    \E k \in 1..Len(source) :
        /\ source[k] = TestMarker
        /\ k < Len(source) /\ source[k + 1] = InputMarker
        /\ \A j \in (k + 1)..Len(source) :
              source[j] = AnswerMarker => \E t \in (k + 1)..j : source[t] = TestMarker

\* C6: with a record that lacks its [answer] marker, run returns the parse
\* error and runs no test: no header is printed, the loop is never entered.
C6_MalformedSuiteFatal ==
    LacksAnswer(test_suite) =>
        /\ printed = <<>>
        /\ tests = <<>>
        /\ i = 0
        /\ pc \in {"main_run", "parse", "done"}
        /\ pc = "done" /\ solution_command # <<>> => result = Err("MalformedSuite")

\* A well-formed record first, the one without [answer] second.
C6_Witness ==
    /\ pc = "done"
    /\ test_suite = <<TestMarker, InputMarker, "1", NL, AnswerMarker, "2", NL,
                      TestMarker, InputMarker, "1", NL>>
    /\ result = Err("MalformedSuite")
    /\ printed = <<>>

====
